---- MODULE Spec2Model ----
(***************************************************************************)
(* Model of tools/compile_monitor.py: the compile_monitor dispatcher, the  *)
(* status snapshot (get_compile_status), the polling waiter                *)
(* (wait_for_compilation_complete), the console readers and the two        *)
(* pass-through commands.                                                  *)
(*                                                                         *)
(* Python dicts are records (a key is present iff it is in the DOMAIN),    *)
(* an optional argument is a sequence of length <= 1 (<<>> is None), and   *)
(* time is counted in ticks of one polling interval (500 ms).  Time passes *)
(* only while an invocation is blocked in a transport call or in sleep.    *)
(***************************************************************************)
EXTENDS Integers, Sequences, FiniteSets, TLC

\* ------------------------------------------------------------------ bounds
MaxTimeout == 1
MaxCallTicks == 1
MaxEntries == 2

\* --------------------------------------------------------- program constants
DefaultTimeout == 30
TicksPerSecond == 2
SleepTicks == 1

Procs == {1, 2}

Max(a, b) == IF a >= b THEN a ELSE b

\* the clock stops here; no wait of the model is still running by then
Horizon == TicksPerSecond * Max(DefaultTimeout, MaxTimeout) + 2 * MaxCallTicks + SleepTicks + 1

Actions == {"get_status", "wait_for_complete", "get_errors", "get_warnings",
            "clear_errors", "force_recompile", "bogus"}

\* ------------------------------------------------------- python primitives
\* d.get(key, default)
Get(d, key, default) == IF key \in DOMAIN d THEN d[key] ELSE default

\* what the transport can hand back: a raised exception, a value that is not
\* a mapping, or a mapping
Raised == [raised |-> "connection lost"]
NonDict == [nondict |-> "no response"]
DidRaise(r) == "raised" \in DOMAIN r
IsDict(r) == "nondict" \notin DOMAIN r /\ "raised" \notin DOMAIN r

\* faulty variant: the success field is not read
IsSuccessEnvelopeAlways(r) == IsDict(r)
\* isinstance(r, dict) and r.get("success")
IsSuccessEnvelope(r) == IsDict(r) /\ Get(r, "success", FALSE) = TRUE

FailureEnvelope == [success |-> FALSE, message |-> "editor unreachable"]
ErrorOnlyMapping == [error |-> "bad command"]
BareSuccess == [success |-> TRUE]

\* the commands handed to send_command_with_retry
GetStateCommand == "manage_editor get_state"
\* faulty variant: the console is cleared where it should be read
ConsoleGetCommandClears == "read_console clear"
ConsoleGetCommand == "read_console get"
ConsoleClearCommand == "read_console clear"
RefreshCommand == "execute_menu_item Assets/Refresh"

\* responses to manage_editor get_state when the editor's flags are c and u
EditorResponses(c, u) ==
    { Raised, NonDict, FailureEnvelope, ErrorOnlyMapping, BareSuccess,
      [success |-> TRUE, data |-> [isCompiling |-> c, isUpdating |-> u]],
      [success |-> TRUE, data |-> [isCompiling |-> c]],
      [success |-> TRUE, data |-> [isUpdating |-> u]],
      [success |-> TRUE, data |-> <<>>] }

ConsoleEntries ==
    { [type |-> "Error", message |-> "e1", file |-> "A.cs", line |-> "10", stackTrace |-> "at A"],
      [type |-> "Error", message |-> "e2"],
      [type |-> "Error", message |-> "e3", stackTrace |-> ""],
      [type |-> "Warning", message |-> "w1", file |-> "B.cs", line |-> "20", stackTrace |-> "at B"],
      [type |-> "Warning", message |-> "w2"],
      [type |-> "Log", message |-> "l1", stackTrace |-> "at C"] }

SeqsUpTo(S, n) == UNION { [1..k -> S] : k \in 0..n }

\* responses to read_console get
ConsoleResponses(n) ==
    { Raised, NonDict, FailureEnvelope, ErrorOnlyMapping, BareSuccess }
    \cup { [success |-> TRUE, data |-> es] : es \in SeqsUpTo(ConsoleEntries, n) }

\* responses to read_console get drawn while the waiter polls: one of each
\* shape the snapshot builder tells apart
PollConsoleResponses ==
    { Raised, NonDict, FailureEnvelope, BareSuccess,
      [success |-> TRUE,
       data |-> << [type |-> "Error", message |-> "e1", file |-> "A.cs", line |-> "10",
                    stackTrace |-> "at A"],
                   [type |-> "Warning", message |-> "w1"] >>] }

\* responses to read_console clear and execute_menu_item
CommandResponses ==
    { Raised, NonDict, FailureEnvelope, ErrorOnlyMapping, BareSuccess,
      [success |-> TRUE, message |-> "ok", data |-> <<>>] }

\* ------------------------------------------------------------ pure helpers
\* timeout_seconds or 30
EffectiveTimeout(t) == IF t = <<>> \/ t[1] = 0 THEN DefaultTimeout ELSE t[1]

\* include_stack_trace or False
EffectiveInclude(i) == IF i = <<>> THEN FALSE ELSE i[1]

\* faulty variant: <= in place of <
LoopConditionLate(nowv, start, T) == nowv - start <= TicksPerSecond * T
\* while time.time() - start_time < timeout_seconds
LoopCondition(nowv, start, T) == nowv - start < TicksPerSecond * T

\* faulty variant: the updating flag is looked at first
StatusLabelUpdatingFirst(c, u) == IF u THEN "updating" ELSE IF c THEN "compiling" ELSE "idle"
\* "compiling" if is_compiling else ("updating" if is_updating else "idle")
StatusLabel(c, u) == IF c THEN "compiling" ELSE IF u THEN "updating" ELSE "idle"

\* the error record of get_compile_status
StatusError(e) == [message |-> Get(e, "message", ""), file |-> Get(e, "file", ""),
                   line |-> Get(e, "line", ""), stackTrace |-> Get(e, "stackTrace", "")]

\* the warning record of get_compile_status and get_compilation_warnings
WarningInfo(e) == [message |-> Get(e, "message", ""), file |-> Get(e, "file", ""),
                   line |-> Get(e, "line", "")]

\* faulty variant: the stack trace is attached whatever the caller asked
ErrorInfoAlways(e, include) ==
    IF Get(e, "stackTrace", "") # ""
    THEN [message |-> Get(e, "message", ""), file |-> Get(e, "file", ""),
          line |-> Get(e, "line", ""), stackTrace |-> Get(e, "stackTrace", "")]
    ELSE [message |-> Get(e, "message", ""), file |-> Get(e, "file", ""),
          line |-> Get(e, "line", "")]
\* the error record of get_compilation_errors
ErrorInfo(e, include) ==
    IF include /\ Get(e, "stackTrace", "") # ""
    THEN [message |-> Get(e, "message", ""), file |-> Get(e, "file", ""),
          line |-> Get(e, "line", ""), stackTrace |-> Get(e, "stackTrace", "")]
    ELSE [message |-> Get(e, "message", ""), file |-> Get(e, "file", ""),
          line |-> Get(e, "line", "")]

\* faulty variant: matching entries are collected at the front of the list
RECURSIVE OfTypeReversed(_, _)
OfTypeReversed(es, kind) ==
    IF es = <<>> THEN <<>>
    ELSE IF Get(Head(es), "type", "") = kind
         THEN OfTypeReversed(Tail(es), kind) \o <<Head(es)>>
         ELSE OfTypeReversed(Tail(es), kind)
\* the entries of one kind, in input order
RECURSIVE OfType(_, _)
OfType(es, kind) ==
    IF es = <<>> THEN <<>>
    ELSE IF Get(Head(es), "type", "") = kind
         THEN <<Head(es)>> \o OfType(Tail(es), kind)
         ELSE OfType(Tail(es), kind)

\* the warning records of the Warning entries of a console response
WarningList(es) ==
    LET found == OfType(es, "Warning")
    IN [i \in 1..Len(found) |-> WarningInfo(found[i])]

\* console_data of a console response: its data when it is a success
\* envelope, nothing otherwise
ConsoleData(r) == IF IsSuccessEnvelope(r) THEN Get(r, "data", <<>>) ELSE <<>>

\* the return value of get_compile_status after both queries
StatusEnvelope(c, u, console) ==
    LET found == OfType(ConsoleData(console), "Error")
        errors == [i \in 1..Len(found) |-> StatusError(found[i])]
        warnings == WarningList(ConsoleData(console))
    IN [success |-> TRUE,
        message |-> "Compilation status retrieved",
        data |-> [isCompiling |-> c, isUpdating |-> u,
                  hasErrors |-> Len(errors) > 0, hasWarnings |-> Len(warnings) > 0,
                  errorCount |-> Len(errors), warningCount |-> Len(warnings),
                  errors |-> errors, warnings |-> warnings,
                  status |-> StatusLabel(c, u)]]

EditorStateFailed == [success |-> FALSE, message |-> "Failed to get editor state"]
StatusException(r) == [success |-> FALSE, message |-> "Error getting compile status: " \o r.raised]

\* faulty variants: or in place of and; misspelt keys
CompilationDoneEither(status_data) ==
    ~Get(status_data, "isCompiling", FALSE) \/ ~Get(status_data, "isUpdating", FALSE)
CompilationDoneTypo(status_data) ==
    ~Get(status_data, "compiling", TRUE) /\ ~Get(status_data, "updating", TRUE)
\* not status_data.get("isCompiling", False) and not status_data.get("isUpdating", False)
CompilationDone(status_data) ==
    ~Get(status_data, "isCompiling", FALSE) /\ ~Get(status_data, "isUpdating", FALSE)

WaitSuccess(waitTime, status_data) ==
    [success |-> TRUE, message |-> "Compilation completed",
     data |-> [waitTime |-> waitTime, finalStatus |-> status_data]]

\* faulty variant: no data.timeout
WaitTimeoutBare(T) ==
    [success |-> FALSE,
     message |-> "Compilation timeout after " \o ToString(T) \o " seconds"]
WaitTimeout(T) ==
    [success |-> FALSE,
     message |-> "Compilation timeout after " \o ToString(T) \o " seconds",
     data |-> [timeout |-> TRUE]]

\* faulty variant: an unknown action is reported as a success
UnknownActionAccepted(action) == [success |-> TRUE, message |-> "Unknown action: " \o action]
\* {"success": False, "message": f"Unknown action: {action}"}
UnknownAction(action) == [success |-> FALSE, message |-> "Unknown action: " \o action]

NoValue == <<>>

\* ------------------------------------------------------------------- state
VARIABLES
    args,             \* args[p]: action, timeout_seconds, include_stack_trace
    pc,               \* where invocation p stands
    start_time,       \* start_time of the wait of p
    timeout,          \* the timeout_seconds the waiter of p was called with
    since,            \* when p's pending transport call or sleep began
    editor_response,  \* the editor-state response held by p's snapshot builder
    console_response, \* the console response held by p's snapshot builder
    status_response,  \* the last snapshot returned to the waiter of p
    result,           \* what the invocation of p returned
    calls,            \* the commands p sent for its current snapshot or action
    now,              \* wall clock, in ticks
    editor,           \* the editor's isCompiling / isUpdating
    idledInTime       \* editor went from compiling to idle before p's deadline
                      \* and has been idle since

vars == <<args, pc, start_time, timeout, since, editor_response, console_response,
          status_response, result,
          calls, now, editor, idledInTime>>

\* absent, negative, zero and positive timeout_seconds
TimeoutArgs == {<<>>, <<-1>>, <<0>>} \cup { <<t>> : t \in 1..MaxTimeout }
IncludeArgs == {<<>>, <<TRUE>>, <<FALSE>>}
FlagStates == [isCompiling : BOOLEAN, isUpdating : BOOLEAN]

\* a parameter is drawn only for the action that reads it
Invocations ==
    { a \in [action : Actions, timeout_seconds : TimeoutArgs, include_stack_trace : IncludeArgs] :
        /\ (a.action # "wait_for_complete" => a.timeout_seconds = <<>>)
        /\ (a.action # "get_errors" => a.include_stack_trace = <<>>) }

NoInvocation == [action |-> "bogus", timeout_seconds |-> <<>>, include_stack_trace |-> <<>>]

Init ==
    /\ args \in { [p \in Procs |-> IF p = 1 THEN a ELSE NoInvocation] : a \in Invocations }
    /\ pc = [p \in Procs |-> IF p = 1 THEN "entry" ELSE "off"]
    /\ start_time = [p \in Procs |-> 0]
    /\ timeout = [p \in Procs |-> 0]
    /\ since = [p \in Procs |-> 0]
    /\ editor_response = [p \in Procs |-> NoValue]
    /\ console_response = [p \in Procs |-> NoValue]
    /\ status_response = [p \in Procs |-> NoValue]
    /\ result = [p \in Procs |-> NoValue]
    /\ calls = [p \in Procs |-> <<>>]
    /\ now = 0
    /\ editor \in FlagStates
    /\ idledInTime = [p \in Procs |-> FALSE]

\* two invocations in flight at once: a wait, and a second invocation of
\* any action; their timeouts are explicit, so that both deadlines fall
\* within a few polls
ConcTimeoutArgs == {<<-1>>, <<1>>}
ConcInvocations ==
    { a \in Invocations :
        a.action = "wait_for_complete" => a.timeout_seconds \in ConcTimeoutArgs }

InitConc ==
    /\ args \in { [p \in Procs |-> IF p = 1 THEN a ELSE b] :
                    a \in { w \in ConcInvocations : /\ w.action = "wait_for_complete"
                                                     /\ w.timeout_seconds[1] > 0 },
                    b \in ConcInvocations }
    /\ pc = [p \in Procs |-> "entry"]
    /\ start_time = [p \in Procs |-> 0]
    /\ timeout = [p \in Procs |-> 0]
    /\ since = [p \in Procs |-> 0]
    /\ editor_response = [p \in Procs |-> NoValue]
    /\ console_response = [p \in Procs |-> NoValue]
    /\ status_response = [p \in Procs |-> NoValue]
    /\ result = [p \in Procs |-> NoValue]
    /\ calls = [p \in Procs |-> <<>>]
    /\ now = 0
    /\ editor \in { e \in FlagStates : ~e.isUpdating }
    /\ idledInTime = [p \in Procs |-> FALSE]

\* with two invocations in flight the transport answers with one failure
\* and one success, and the editor compiles or is idle
TwoInFlight == \A p \in Procs : pc[p] # "off"
FlagChoices == IF TwoInFlight THEN { e \in FlagStates : ~e.isUpdating } ELSE FlagStates
EditorChoices ==
    IF TwoInFlight
    THEN { FailureEnvelope,
           [success |-> TRUE,
            data |-> [isCompiling |-> editor.isCompiling, isUpdating |-> editor.isUpdating]] }
    ELSE EditorResponses(editor.isCompiling, editor.isUpdating)
ConsoleChoices(p) ==
    IF TwoInFlight
    THEN { Raised, [success |-> TRUE, data |-> << [type |-> "Error", message |-> "e2"] >>] }
    ELSE IF args[p].action = "wait_for_complete"
    THEN PollConsoleResponses ELSE ConsoleResponses(MaxEntries)
CommandChoices ==
    IF TwoInFlight
    THEN { Raised, [success |-> TRUE, message |-> "ok", data |-> <<>>] }
    ELSE CommandResponses

\* ------------------------------------------------------- building blocks
\* return r from the invocation
Finish(p, r) ==
    /\ pc' = [pc EXCEPT ![p] = "done"]
    /\ result' = [result EXCEPT ![p] = r]

\* faulty variant: the command is issued a second time
SendTwice(p, cmd, first, at) ==
    /\ pc' = [pc EXCEPT ![p] = at]
    /\ calls' = [calls EXCEPT ![p] = IF first THEN <<cmd, cmd>> ELSE Append(Append(@, cmd), cmd)]
    /\ since' = [since EXCEPT ![p] = now]
\* send_command_with_retry(cmd, ...): the call is issued and p blocks in it
Send(p, cmd, first, at) ==
    /\ pc' = [pc EXCEPT ![p] = at]
    /\ calls' = [calls EXCEPT ![p] = IF first THEN <<cmd>> ELSE Append(@, cmd)]
    /\ since' = [since EXCEPT ![p] = now]

\* faulty variant: the failure of a snapshot is not looked at
SnapshotFailedNever(snap) == FALSE
\* if not status_response.get("success")
SnapshotFailed(snap) == ~Get(snap, "success", FALSE)

\* faulty variant: the start time is kept in one place for all waiters, so
\* the deadline is counted from the most recent start
WaitLoopSharedStart(p, start, T) ==
    IF LoopCondition(now, Max(start, Max(start_time[1], start_time[2])), T)
    THEN /\ Send(p, GetStateCommand, TRUE, "editor_state")
         /\ UNCHANGED result
    ELSE /\ Finish(p, WaitTimeout(T))
         /\ UNCHANGED <<calls, since>>
\* one evaluation of the while condition of the waiter started at start
\* with timeout T: the next snapshot begins, or the timeout is returned
WaitLoop(p, start, T) ==
    IF LoopCondition(now, start, T)
    THEN /\ Send(p, GetStateCommand, TRUE, "editor_state")
         /\ UNCHANGED result
    ELSE /\ Finish(p, WaitTimeout(T))
         /\ UNCHANGED <<calls, since>>

\* get_compile_status returns snap to its caller: the dispatcher returns
\* it; the waiter returns it when it failed, returns success when the
\* flags are clear, and sleeps otherwise
AfterSnapshot(p, snap) ==
    LET waiting == args[p].action = "wait_for_complete"
        status_data == Get(snap, "data", <<>>)
        over == ~waiting \/ SnapshotFailed(snap) \/ CompilationDone(status_data)
    IN /\ status_response' = IF waiting THEN [status_response EXCEPT ![p] = snap]
                                         ELSE status_response
       /\ pc' = [pc EXCEPT ![p] = IF over THEN "done" ELSE "sleep"]
       /\ result' = IF ~over THEN result
                    ELSE [result EXCEPT ![p] =
                            IF ~waiting \/ SnapshotFailed(snap) THEN snap
                            ELSE WaitSuccess(now - start_time[p], status_data)]
       /\ since' = IF over THEN since ELSE [since EXCEPT ![p] = now]

\* ---------------------------------------------------------------- actions
\* the dispatcher: the log call, then the branch on action; a handler runs
\* up to its first transport call
compile_monitor(p) ==
    /\ pc[p] = "entry"
    /\ \E logged \in BOOLEAN :
        IF ~logged
        THEN /\ pc' = [pc EXCEPT ![p] = "raised"]
             /\ UNCHANGED <<start_time, timeout, since, result, calls>>
        ELSE CASE args[p].action = "get_status" ->
                    /\ Send(p, GetStateCommand, TRUE, "editor_state")
                    /\ UNCHANGED <<start_time, timeout, result>>
               [] args[p].action = "wait_for_complete" ->
                    /\ start_time' = [start_time EXCEPT ![p] = now]
                    /\ timeout' = [timeout EXCEPT ![p] = EffectiveTimeout(args[p].timeout_seconds)]
                    /\ WaitLoop(p, now, EffectiveTimeout(args[p].timeout_seconds))
               [] args[p].action = "get_errors" ->
                    /\ Send(p, ConsoleGetCommand, TRUE, "errors_console")
                    /\ UNCHANGED <<start_time, timeout, result>>
               [] args[p].action = "get_warnings" ->
                    /\ Send(p, ConsoleGetCommand, TRUE, "warnings_console")
                    /\ UNCHANGED <<start_time, timeout, result>>
               [] args[p].action = "clear_errors" ->
                    /\ Send(p, ConsoleClearCommand, TRUE, "clear")
                    /\ UNCHANGED <<start_time, timeout, result>>
               [] args[p].action = "force_recompile" ->
                    /\ Send(p, RefreshCommand, TRUE, "recompile")
                    /\ UNCHANGED <<start_time, timeout, result>>
               [] OTHER ->
                    /\ Finish(p, UnknownAction(args[p].action))
                    /\ UNCHANGED <<start_time, timeout, since, calls>>
    /\ UNCHANGED <<args, editor_response, console_response, status_response, now, editor, idledInTime>>

\* get_compile_status: the editor-state query returns
get_compile_status_editor(p) ==
    /\ pc[p] = "editor_state"
    /\ \E r \in EditorChoices :
        /\ editor_response' = [editor_response EXCEPT ![p] = r]
        /\ console_response' = [console_response EXCEPT ![p] = NoValue]
        /\ IF DidRaise(r)
           THEN /\ AfterSnapshot(p, StatusException(r))
                /\ UNCHANGED calls
           ELSE IF ~IsSuccessEnvelope(r)
           THEN /\ AfterSnapshot(p, EditorStateFailed)
                /\ UNCHANGED calls
           ELSE /\ Send(p, ConsoleGetCommand, FALSE, "console")
                /\ UNCHANGED <<status_response, result>>
    /\ UNCHANGED <<args, start_time, timeout, now, editor, idledInTime>>

\* faulty variant: a missing isCompiling counts as compiling
is_compiling_unless_denied(r) == Get(Get(r, "data", <<>>), "isCompiling", TRUE)
\* editor_data.get("isCompiling", False), editor_data.get("isUpdating", False)
is_compiling(r) == Get(Get(r, "data", <<>>), "isCompiling", FALSE)
is_updating(r) == Get(Get(r, "data", <<>>), "isUpdating", FALSE)

\* faulty variant: a console response that is no success envelope is fatal
SnapshotResultStrict(er, cr) ==
    IF DidRaise(cr) THEN StatusException(cr)
    ELSE IF ~IsSuccessEnvelope(cr)
    THEN [success |-> FALSE, message |-> "Failed to read console"]
    ELSE StatusEnvelope(is_compiling(er), is_updating(er), cr)
\* what get_compile_status returns once the console query has given cr,
\* the editor-state query having given the success envelope er
SnapshotResult(er, cr) ==
    IF DidRaise(cr) THEN StatusException(cr)
    ELSE StatusEnvelope(is_compiling(er), is_updating(er), cr)

\* get_compile_status: the console query returns and the snapshot is built
get_compile_status_console(p) ==
    /\ pc[p] = "console"
    /\ \E r \in ConsoleChoices(p) :
        /\ console_response' = [console_response EXCEPT ![p] = r]
        /\ AfterSnapshot(p, SnapshotResult(editor_response[p], r))
    /\ UNCHANGED <<args, start_time, timeout, editor_response, calls, now, editor, idledInTime>>

\* faulty variant: the loop goes round without sleeping
wait_without_sleep(p) ==
    /\ pc[p] = "sleep"
    /\ WaitLoop(p, start_time[p], timeout[p])
    /\ UNCHANGED <<args, start_time, timeout, editor_response, console_response, status_response,
                   now, editor, idledInTime>>
\* wait_for_compilation_complete: time.sleep(0.5) is over, the loop
\* condition is evaluated again
wait_for_compilation_complete(p) ==
    /\ pc[p] = "sleep"
    /\ now - since[p] >= SleepTicks
    /\ WaitLoop(p, start_time[p], timeout[p])
    /\ UNCHANGED <<args, start_time, timeout, editor_response, console_response, status_response,
                   now, editor, idledInTime>>

\* faulty variant: a console response that is no success envelope is
\* reported as a failure
ErrorsResultStrict(r, include) ==
    IF DidRaise(r)
    THEN [success |-> FALSE, message |-> "Error getting compilation errors: " \o r.raised]
    ELSE IF ~IsSuccessEnvelope(r)
    THEN [success |-> FALSE, message |-> "Failed to read console"]
    ELSE LET found == OfType(ConsoleData(r), "Error")
             errors == [i \in 1..Len(found) |-> ErrorInfo(found[i], include)]
         IN [success |-> TRUE,
             message |-> "Retrieved " \o ToString(Len(errors)) \o " compilation errors",
             data |-> [errorCount |-> Len(errors), errors |-> errors]]
\* the return value of get_compilation_errors for console response r
ErrorsResult(r, include) ==
    IF DidRaise(r)
    THEN [success |-> FALSE, message |-> "Error getting compilation errors: " \o r.raised]
    ELSE LET found == OfType(ConsoleData(r), "Error")
             errors == [i \in 1..Len(found) |-> ErrorInfo(found[i], include)]
         IN [success |-> TRUE,
             message |-> "Retrieved " \o ToString(Len(errors)) \o " compilation errors",
             data |-> [errorCount |-> Len(errors), errors |-> errors]]

\* the return value of get_compilation_warnings for console response r
WarningsResult(r) ==
    IF DidRaise(r)
    THEN [success |-> FALSE, message |-> "Error getting compilation warnings: " \o r.raised]
    ELSE LET warnings == WarningList(ConsoleData(r))
         IN [success |-> TRUE,
             message |-> "Retrieved " \o ToString(Len(warnings)) \o " compilation warnings",
             data |-> [warningCount |-> Len(warnings), warnings |-> warnings]]

\* the return value of clear_compilation_errors for transport response r
ClearResult(r) ==
    IF DidRaise(r)
    THEN [success |-> FALSE, message |-> "Error clearing compilation errors: " \o r.raised]
    ELSE IF IsDict(r) THEN r
    ELSE [success |-> FALSE, message |-> r.nondict]

\* the return value of force_recompile for transport response r
RecompileResult(r) ==
    IF DidRaise(r)
    THEN [success |-> FALSE, message |-> "Error forcing recompilation: " \o r.raised]
    ELSE IF IsSuccessEnvelope(r)
    THEN [success |-> TRUE, message |-> "Forced recompilation initiated",
          data |-> [recompileTriggered |-> TRUE]]
    ELSE IF IsDict(r) THEN r
    ELSE [success |-> FALSE, message |-> r.nondict]

\* get_compilation_errors: the console query returns
get_compilation_errors(p) ==
    /\ pc[p] = "errors_console"
    /\ \E r \in ConsoleChoices(p) :
        /\ console_response' = [console_response EXCEPT ![p] = r]
        /\ Finish(p, ErrorsResult(r, EffectiveInclude(args[p].include_stack_trace)))
    /\ UNCHANGED <<args, start_time, timeout, since, editor_response, status_response, calls,
                   now, editor, idledInTime>>

\* get_compilation_warnings: the console query returns
get_compilation_warnings(p) ==
    /\ pc[p] = "warnings_console"
    /\ \E r \in ConsoleChoices(p) :
        /\ console_response' = [console_response EXCEPT ![p] = r]
        /\ Finish(p, WarningsResult(r))
    /\ UNCHANGED <<args, start_time, timeout, since, editor_response, status_response, calls,
                   now, editor, idledInTime>>

\* clear_compilation_errors: the clear command returns
clear_compilation_errors(p) ==
    /\ pc[p] = "clear"
    /\ \E r \in CommandChoices : Finish(p, ClearResult(r))
    /\ UNCHANGED <<args, start_time, timeout, since, editor_response, console_response, status_response, calls,
                   now, editor, idledInTime>>

\* force_recompile: the menu command returns
force_recompile(p) ==
    /\ pc[p] = "recompile"
    /\ \E r \in CommandChoices : Finish(p, RecompileResult(r))
    /\ UNCHANGED <<args, start_time, timeout, since, editor_response, console_response, status_response, calls,
                   now, editor, idledInTime>>

\* ------------------------------------------------------------ environment
InCall(p) == pc[p] \in {"editor_state", "console", "errors_console",
                        "warnings_console", "clear", "recompile"}
Blocked(p) == InCall(p) \/ pc[p] = "sleep"
Running(p) == pc[p] \notin {"off", "done", "raised"}

\* the waiter of p is polling and its deadline has not passed
BeforeDeadline(p) ==
    /\ Running(p)
    /\ pc[p] # "entry"
    /\ args[p].action = "wait_for_complete"
    /\ LoopCondition(now, start_time[p], timeout[p])

\* the wall clock advances by one tick: a sleep lasts SleepTicks, a
\* transport call at most MaxCallTicks
Tick ==
    /\ now < Horizon
    /\ \E p \in Procs : Blocked(p)
    /\ \A p \in Procs :
        /\ InCall(p) => now - since[p] < MaxCallTicks
        /\ pc[p] = "sleep" => now - since[p] < SleepTicks
    /\ now' = now + 1
    /\ UNCHANGED <<args, pc, start_time, timeout, since, editor_response, console_response, status_response,
                   result, calls, editor, idledInTime>>

\* the editor starts or finishes compiling or reloading
EditorChange ==
    /\ \E p \in Procs : Running(p)
    /\ \E e \in FlagChoices :
        /\ e # editor
        /\ editor' = e
        /\ idledInTime' = [p \in Procs |->
                             /\ editor.isCompiling
                             /\ ~e.isCompiling /\ ~e.isUpdating
                             /\ BeforeDeadline(p)]
    /\ UNCHANGED <<args, pc, start_time, timeout, since, editor_response, console_response, status_response,
                   result, calls, now>>

Step(p) ==
    \/ compile_monitor(p)
    \/ get_compile_status_editor(p)
    \/ get_compile_status_console(p)
    \/ wait_for_compilation_complete(p)
    \/ get_compilation_errors(p)
    \/ get_compilation_warnings(p)
    \/ clear_compilation_errors(p)
    \/ force_recompile(p)

Next ==
    \/ \E p \in Procs : Step(p)
    \/ Tick
    \/ EditorChange

Spec == Init /\ [][Next]_vars

\* the same steps, from two invocations in flight
SpecConc == InitConc /\ [][Next]_vars

\* the wall clock advances and every transport call returns
FairSpec == Spec /\ WF_vars(Tick) /\ \A p \in Procs : WF_vars(Step(p))

TypeOK ==
    /\ now \in 0..Horizon
    /\ \A p \in Procs : pc[p] \in {"off", "entry", "editor_state", "console", "sleep",
                                   "errors_console", "warnings_console", "clear",
                                   "recompile", "done", "raised"}

\* ================================================================ properties
IsWait(p) == args[p].action = "wait_for_complete"
Done(p) == pc[p] = "done"

\* r has success = true
SaysSuccess(r) == "success" \in DOMAIN r /\ r.success = TRUE
\* r carries data.timeout = true
HasTimeoutMarker(r) ==
    /\ "data" \in DOMAIN r
    /\ "timeout" \in DOMAIN r.data
    /\ r.data.timeout = TRUE
\* a successful snapshot
IsSnapshot(s) == SaysSuccess(s) /\ "data" \in DOMAIN s
\* a successful snapshot with a flag set
ShowsBusy(s) == IsSnapshot(s) /\ (s.data.isCompiling \/ s.data.isUpdating)
\* a successful snapshot with both flags clear
ShowsIdle(s) == IsSnapshot(s) /\ s.data.isCompiling = FALSE /\ s.data.isUpdating = FALSE
Elapsed(p) == now - start_time[p]

\* C1: wait_for_complete called through the dispatcher with timeoutSeconds
\* <= 0 against a compiling editor expires on the first deadline check: as
\* soon as the dispatcher has run, the invocation has returned the timeout
\* failure, with no poll taken and less than one interval elapsed.
C1_ExpiresOnFirstCheck ==
    \A p \in Procs :
        ( /\ IsWait(p)
          /\ pc[p] \notin {"off", "entry", "raised"}
          /\ args[p].timeout_seconds # <<>>
          /\ args[p].timeout_seconds[1] <= 0
          /\ editor.isCompiling )
        => ( /\ Done(p)
             /\ ~SaysSuccess(result[p])
             /\ HasTimeoutMarker(result[p])
             /\ calls[p] = <<>>
             /\ Elapsed(p) < SleepTicks )

\* C2 as stated: a wait during which the editor went idle before the
\* deadline (and stayed idle), and none of whose snapshots failed, returns
\* success with both flags false in finalStatus.
C2_IdleBeforeDeadlineGivesSuccess ==
    \A p \in Procs :
        (Done(p) /\ IsWait(p) /\ idledInTime[p] /\ result[p] # status_response[p])
        => (SaysSuccess(result[p]) /\ ShowsIdle(status_response[p]))

\* C2 amended: a finished wait returned success exactly when its most recent
\* snapshot succeeded with isCompiling and isUpdating both false, and the
\* success result carries that snapshot's data as finalStatus.
C2_SuccessIffIdleSnapshot ==
    \A p \in Procs :
        (Done(p) /\ IsWait(p)) =>
            /\ SaysSuccess(result[p]) <=> ShowsIdle(status_response[p])
            /\ SaysSuccess(result[p]) =>
                /\ result[p].data.finalStatus = status_response[p].data
                /\ result[p].data.finalStatus.isCompiling = FALSE
                /\ result[p].data.finalStatus.isUpdating = FALSE
                /\ result[p].data.waitTime = Elapsed(p)

\* the editor was busy, went idle before the deadline, and the wait
\* returned success
C2_Witness ==
    \E p \in Procs :
        /\ Done(p) /\ IsWait(p) /\ idledInTime[p]
        /\ SaysSuccess(result[p])
        /\ result[p].data.waitTime > 0

\* C3 as stated: a timeout is returned only by a wait whose most recent
\* snapshot succeeded and showed a flag set.
C3_TimeoutOnlyAfterBusySnapshot ==
    \A p \in Procs :
        (Done(p) /\ IsWait(p) /\ HasTimeoutMarker(result[p]))
        => ShowsBusy(status_response[p])

\* C3 amended: when a wait returns the timeout failure the deadline has been
\* reached, and either the wait took no snapshot because the deadline had
\* already passed at its first check (timeoutSeconds negative), or its most
\* recent snapshot succeeded and showed isCompiling or isUpdating set.
C3_TimeoutAfterDeadline ==
    \A p \in Procs :
        (Done(p) /\ IsWait(p) /\ HasTimeoutMarker(result[p])) =>
            /\ Elapsed(p) >= TicksPerSecond * timeout[p]
            /\ IF status_response[p] = NoValue
               THEN timeout[p] < 0 /\ calls[p] = <<>> /\ Elapsed(p) = 0
               ELSE ShowsBusy(status_response[p])

\* a timeout returned after polling a busy editor
C3_Witness ==
    \E p \in Procs :
        /\ Done(p) /\ IsWait(p) /\ HasTimeoutMarker(result[p])
        /\ ShowsBusy(status_response[p])
        /\ Elapsed(p) > 0

\* C4: the step in which a snapshot of the waiter fails ends the wait: the
\* failure envelope is the result, unchanged, no further command is sent and
\* no sleep begins; a finished invocation takes no further step.
C4_FailedSnapshotEndsWait ==
    [][ \A p \in Procs :
          /\ ( /\ IsWait(p)
               /\ pc[p] \in {"editor_state", "console"}
               /\ pc'[p] \notin {"editor_state", "console"}
               /\ ~SaysSuccess(status_response'[p]) )
             => ( /\ pc'[p] = "done"
                  /\ result'[p] = status_response'[p]
                  /\ result'[p] \in {EditorStateFailed, StatusException(Raised)}
                  /\ calls'[p] = calls[p] )
          /\ Done(p) => ( /\ pc'[p] = "done"
                          /\ calls'[p] = calls[p]
                          /\ result'[p] = result[p] ) ]_vars

\* a wait that polled, slept, and then ended on a failed snapshot
C4_Witness ==
    \E p \in Procs :
        /\ Done(p) /\ IsWait(p)
        /\ ~SaysSuccess(result[p]) /\ ~HasTimeoutMarker(result[p])
        /\ result[p] = status_response[p]
        /\ Elapsed(p) >= SleepTicks

\* C5 as stated (the bound): a wait has returned no later than its timeout
\* after it started.
C5_ReturnsByDeadline ==
    \A p \in Procs :
        (Done(p) /\ IsWait(p)) => Elapsed(p) <= TicksPerSecond * Max(timeout[p], 0)

\* the three ways a wait ends
EndedSuccess(p) == SaysSuccess(result[p]) /\ ~HasTimeoutMarker(result[p])
EndedTimeout(p) == ~SaysSuccess(result[p]) /\ HasTimeoutMarker(result[p])
EndedFailure(p) ==
    /\ ~SaysSuccess(result[p]) /\ ~HasTimeoutMarker(result[p])
    /\ result[p] = status_response[p]

\* C5 amended: with the clock advancing and every transport call returning,
\* a polling wait reaches DONE whatever the editor does, with exactly one of
\* success, timeout and propagated failure; a wait with timeout <= 0 returns
\* at once, and any other returns less than one snapshot (two transport
\* calls) plus one polling interval after its deadline.
C5_TerminatesNearDeadline ==
    /\ <>(\A p \in Procs : IsWait(p) => pc[p] \in {"done", "raised"})
    /\ [](\A p \in Procs :
            (Done(p) /\ IsWait(p)) =>
                /\ \/ EndedSuccess(p) /\ ~EndedTimeout(p) /\ ~EndedFailure(p)
                   \/ ~EndedSuccess(p) /\ EndedTimeout(p) /\ ~EndedFailure(p)
                   \/ ~EndedSuccess(p) /\ ~EndedTimeout(p) /\ EndedFailure(p)
                /\ IF timeout[p] <= 0
                   THEN Elapsed(p) = 0
                   ELSE Elapsed(p) < TicksPerSecond * timeout[p]
                                     + 2 * MaxCallTicks + SleepTicks)

\* a wait on an editor still compiling that returned after its deadline
C5_Witness ==
    \E p \in Procs :
        /\ Done(p) /\ IsWait(p) /\ EndedTimeout(p)
        /\ editor.isCompiling
        /\ Elapsed(p) > TicksPerSecond * timeout[p]
        /\ timeout[p] = DefaultTimeout

\* C6: a wait's result carries data.timeout = true exactly when the wait
\* ended at the deadline check; a result that ends the wait on a failed
\* snapshot carries no data at all, a success result carries no marker, so
\* success, timeout and failure differ in success and data.timeout.
C6_TimeoutMarkerIffExpiry ==
    [][ \A p \in Procs :
          (IsWait(p) /\ ~Done(p) /\ pc'[p] = "done") =>
              /\ HasTimeoutMarker(result'[p])
                    <=> ( /\ pc[p] \in {"entry", "sleep"}
                          /\ now' - start_time'[p] >= TicksPerSecond * timeout'[p] )
              /\ HasTimeoutMarker(result'[p]) => ~SaysSuccess(result'[p])
              /\ (pc[p] \in {"editor_state", "console"} /\ ~SaysSuccess(result'[p]))
                    => "data" \notin DOMAIN result'[p]
              /\ SaysSuccess(result'[p]) => "timeout" \notin DOMAIN result'[p].data ]_vars

\* a wait that ended by deadline expiry after polling, with the marker
C6_Witness ==
    \E p \in Procs :
        /\ Done(p) /\ IsWait(p)
        /\ status_response[p] # NoValue
        /\ HasTimeoutMarker(result[p])

IsGetStatus(p) == args[p].action = "get_status"

\* C7 as stated: in get_status, an editor-state query that fails gives
\* "Failed to get editor state" and no console query.
C7_EditorFailureMessage ==
    \A p \in Procs :
        (Done(p) /\ IsGetStatus(p) /\ ~SaysSuccess(editor_response[p]))
        => (result[p] = EditorStateFailed /\ calls[p] = <<"manage_editor get_state">>)

\* C7 amended: in get_status, an editor-state query that returns anything but
\* a success envelope gives "Failed to get editor state", one that raises
\* gives "Error getting compile status: <cause>", and in both cases no
\* console query is issued; the console query is issued only after the
\* editor-state query returned a success envelope.
C7_ConsoleOnlyAfterEditorSuccess ==
    \A p \in Procs :
        IsGetStatus(p) =>
            /\ (pc[p] = "console" \/ Len(calls[p]) > 1) =>
                  /\ SaysSuccess(editor_response[p])
                  /\ calls[p] = <<"manage_editor get_state", "read_console get">>
            /\ (Done(p) /\ ~SaysSuccess(editor_response[p])) =>
                  /\ calls[p] = <<"manage_editor get_state">>
                  /\ result[p] = IF DidRaise(editor_response[p])
                                 THEN StatusException(editor_response[p])
                                 ELSE EditorStateFailed

\* get_status ended on a failure envelope from the editor-state query
C7_Witness ==
    \E p \in Procs :
        /\ Done(p) /\ IsGetStatus(p)
        /\ editor_response[p] = FailureEnvelope
        /\ result[p] = EditorStateFailed
        /\ calls[p] = <<"manage_editor get_state">>

\* the snapshot in result[p] is a success with empty diagnostics and the
\* flags of the editor-state response
EmptyDiagnostics(p) ==
    /\ SaysSuccess(result[p])
    /\ result[p].data.errors = <<>>
    /\ result[p].data.warnings = <<>>
    /\ result[p].data.isCompiling = Get(Get(editor_response[p], "data", <<>>), "isCompiling", FALSE)
    /\ result[p].data.isUpdating = Get(Get(editor_response[p], "data", <<>>), "isUpdating", FALSE)

\* C8 as stated: in get_status, when the editor-state query succeeded and
\* the console query fails, the result is a success with empty errors and
\* warnings and the flags of the editor-state response.
C8_ConsoleFailureTolerated ==
    \A p \in Procs :
        ( /\ Done(p) /\ IsGetStatus(p)
          /\ SaysSuccess(editor_response[p])
          /\ ~SaysSuccess(console_response[p]) )
        => EmptyDiagnostics(p)

\* C8 amended: when the console query returns anything but a success
\* envelope the snapshot succeeds with empty diagnostics and the editor's
\* flags; when the console query raises, get_status returns the failure
\* "Error getting compile status: <cause>".
C8_ConsoleFailureValueTolerated ==
    \A p \in Procs :
        ( /\ Done(p) /\ IsGetStatus(p)
          /\ SaysSuccess(editor_response[p])
          /\ ~SaysSuccess(console_response[p]) )
        => IF DidRaise(console_response[p])
           THEN result[p] = StatusException(console_response[p])
           ELSE EmptyDiagnostics(p)

\* get_status of a compiling editor whose console query returned a failure
\* envelope
C8_Witness ==
    \E p \in Procs :
        /\ Done(p) /\ IsGetStatus(p)
        /\ console_response[p] = FailureEnvelope
        /\ EmptyDiagnostics(p)
        /\ result[p].data.isCompiling

\* C9: every operation returns an envelope with a boolean success and a
\* message, whatever the transport returned.
C9_UniformEnvelope ==
    \A p \in Procs :
        Done(p) =>
            /\ "success" \in DOMAIN result[p]
            /\ result[p].success \in BOOLEAN
            /\ "message" \in DOMAIN result[p]

\* C10: no invocation ends by raising, whichever collaborator call fails.
C10_NeverRaises == \A p \in Procs : pc[p] # "raised"

\* the names the dispatcher routes to a handler
ActionSet == {"get_status", "wait_for_complete", "get_errors", "get_warnings",
              "clear_errors", "force_recompile"}

\* C11: an invocation whose action is outside the action set makes no
\* transport call at any point, and once the dispatcher has branched on the
\* name it has returned {success: false, message: "Unknown action: <name>"}.
C11_UnknownActionNoCall ==
    \A p \in Procs :
        (pc[p] # "off" /\ args[p].action \notin ActionSet) =>
            /\ calls[p] = <<>>
            /\ pc[p] \in {"entry", "done", "raised"}
            /\ Done(p) =>
                  /\ result[p].success = FALSE
                  /\ result[p].message = "Unknown action: " \o args[p].action
                  /\ DOMAIN result[p] = {"success", "message"}

\* an invocation with an unknown action has returned
C11_Witness ==
    \E p \in Procs :
        /\ Done(p) /\ args[p].action = "bogus"
        /\ result[p].message = "Unknown action: bogus"
        /\ calls[p] = <<>>

\* the successful snapshots at hand: the result of get_status, the
\* waiter's most recent snapshot, and the finalStatus of a finished wait
SnapshotData(p) ==
    (IF Done(p) /\ IsGetStatus(p) /\ IsSnapshot(result[p]) THEN {result[p].data} ELSE {})
    \cup (IF IsWait(p) /\ IsSnapshot(status_response[p])
          THEN {status_response[p].data} ELSE {})
    \cup (IF Done(p) /\ IsWait(p) /\ SaysSuccess(result[p])
          THEN {result[p].data.finalStatus} ELSE {})

\* C12: in every successful snapshot the status label is fixed by the two
\* flags: "compiling" exactly when isCompiling is true, "updating" exactly
\* when isCompiling is false and isUpdating is true, "idle" otherwise.
C12_StatusLabelFromFlags ==
    \A p \in Procs : \A d \in SnapshotData(p) :
        /\ d.isCompiling \in BOOLEAN /\ d.isUpdating \in BOOLEAN
        /\ d.status \in {"compiling", "updating", "idle"}
        /\ d.status = "compiling" <=> d.isCompiling
        /\ d.status = "updating" <=> (~d.isCompiling /\ d.isUpdating)
        /\ d.status = "idle" <=> (~d.isCompiling /\ ~d.isUpdating)

\* a snapshot with both flags set, labelled "compiling"
C12_Witness ==
    \E p \in Procs : \E d \in SnapshotData(p) :
        d.isCompiling /\ d.isUpdating /\ d.status = "compiling"

\* the entries the console query of p returned (none when it returned no
\* success envelope or no data)
EntriesRead(p) ==
    IF SaysSuccess(console_response[p]) /\ "data" \in DOMAIN console_response[p]
    THEN console_response[p].data ELSE <<>>
\* the entries of one kind among those read, in the order read
EntriesOfKind(p, kind) == SelectSeq(EntriesRead(p), LAMBDA e : e.type = kind)
\* list reports the entries of es one for one, in order, with "" for a
\* field an entry lacks
Reports(list, es) ==
    /\ Len(list) = Len(es)
    /\ \A i \in 1..Len(es) :
          \A f \in {"message", "file", "line"} :
              list[i][f] = (IF f \in DOMAIN es[i] THEN es[i][f] ELSE "")

\* C13: the errors list of a result is exactly the subsequence of the
\* entries read that have kind Error, and the warnings list exactly the
\* subsequence of kind Warning, both in input order; entries of any other
\* kind are in neither list, and the two lists together are no longer than
\* the input.
C13_ListsAreSubsequences ==
    \A p \in Procs :
        /\ (Done(p) /\ IsGetStatus(p) /\ IsSnapshot(result[p])) =>
              /\ Reports(result[p].data.errors, EntriesOfKind(p, "Error"))
              /\ Reports(result[p].data.warnings, EntriesOfKind(p, "Warning"))
              /\ result[p].data.errorCount = Len(result[p].data.errors)
              /\ result[p].data.warningCount = Len(result[p].data.warnings)
              /\ Len(result[p].data.errors) + Len(result[p].data.warnings)
                    <= Len(EntriesRead(p))
        /\ (Done(p) /\ args[p].action = "get_errors" /\ SaysSuccess(result[p])) =>
              /\ Reports(result[p].data.errors, EntriesOfKind(p, "Error"))
              /\ result[p].data.errorCount = Len(result[p].data.errors)
        /\ (Done(p) /\ args[p].action = "get_warnings" /\ SaysSuccess(result[p])) =>
              /\ Reports(result[p].data.warnings, EntriesOfKind(p, "Warning"))
              /\ result[p].data.warningCount = Len(result[p].data.warnings)

\* a snapshot built from two different errors, reported in the order read,
\* or from a Log entry and a warning, with only the warning reported
C13_Witness ==
    \E p \in Procs :
        /\ Done(p) /\ IsGetStatus(p) /\ IsSnapshot(result[p])
        /\ Len(EntriesRead(p)) = MaxEntries
        /\ \/ /\ Len(result[p].data.errors) = 2
              /\ result[p].data.errors[1].message = "e2"
              /\ result[p].data.errors[2].message = "e1"
           \/ /\ EntriesRead(p)[1].type = "Log"
              /\ Len(result[p].data.warnings) = 1
              /\ Len(result[p].data.errors) = 0

\* C14: in get_errors a reported error carries a stackTrace field exactly
\* when the caller asked for stack traces and the entry has a non-empty
\* stack trace; with includeStackTrace false or absent no error carries one.
C14_StackTraceOnlyOnRequest ==
    \A p \in Procs :
        (Done(p) /\ args[p].action = "get_errors" /\ SaysSuccess(result[p])) =>
            LET errors == result[p].data.errors
                found == EntriesOfKind(p, "Error")
                asked == args[p].include_stack_trace = <<TRUE>>
            IN /\ Len(errors) = Len(found)
               /\ \A i \in 1..Len(found) :
                     /\ "stackTrace" \in DOMAIN errors[i]
                           <=> ( /\ asked
                                 /\ "stackTrace" \in DOMAIN found[i]
                                 /\ found[i].stackTrace # "" )
                     /\ "stackTrace" \in DOMAIN errors[i]
                           => errors[i].stackTrace = found[i].stackTrace

\* stack traces were asked for: an entry with a stack trace is reported
\* with it, next to an entry without one
C14_Witness ==
    \E p \in Procs :
        /\ Done(p) /\ args[p].action = "get_errors" /\ SaysSuccess(result[p])
        /\ args[p].include_stack_trace = <<TRUE>>
        /\ Len(result[p].data.errors) = 2
        /\ \E i, j \in 1..2 :
              /\ "stackTrace" \in DOMAIN result[p].data.errors[i]
              /\ "stackTrace" \notin DOMAIN result[p].data.errors[j]

\* the one command of clear_errors and of force_recompile
OnlyCommand(p) ==
    IF args[p].action = "clear_errors" THEN "read_console clear"
    ELSE "execute_menu_item Assets/Refresh"

\* C15: clear_errors and force_recompile issue exactly one transport call
\* per invocation, their own command, whatever that call gives back: while
\* the call is out and after the handler returned, the commands issued are
\* that single one, and before the handler is entered there is none.
C15_ExactlyOneCall ==
    \A p \in Procs :
        (pc[p] # "off" /\ args[p].action \in {"clear_errors", "force_recompile"}) =>
            /\ pc[p] \in {"entry", "raised"} => calls[p] = <<>>
            /\ pc[p] \notin {"entry", "raised"} =>
                  /\ pc[p] \in {"clear", "recompile", "done"}
                  /\ calls[p] = <<OnlyCommand(p)>>

\* force_recompile returned after its command raised, with one call made
C15_Witness ==
    \E p \in Procs :
        /\ Done(p) /\ args[p].action = "force_recompile"
        /\ result[p].message = "Error forcing recompilation: connection lost"
        /\ calls[p] = <<"execute_menu_item Assets/Refresh">>

\* what invocation p holds: its arguments, its position and its locals
Locals(p) == <<args[p], pc[p], start_time[p], timeout[p], since[p], editor_response[p],
               console_response[p], status_response[p], result[p], calls[p]>>

\* C16: two invocations in flight are independent. No step changes what
\* both hold, so the step in which one times out, fails or completes
\* leaves the other where it was; each deadline check of a wait is decided
\* by that wait's own start time and timeout; and the result of a wait is
\* built from its own start time, its own timeout and the snapshot it
\* received last.
C16_InvocationsIndependent ==
    [][ \A p \in Procs :
          /\ Locals(p)' # Locals(p) => \A q \in Procs \ {p} : Locals(q)' = Locals(q)
          /\ (IsWait(p) /\ pc[p] = "sleep" /\ pc'[p] # "sleep") =>
                IF now - start_time[p] >= TicksPerSecond * timeout[p]
                THEN pc'[p] = "done" /\ HasTimeoutMarker(result'[p])
                ELSE pc'[p] = "editor_state"
          /\ (IsWait(p) /\ ~Done(p) /\ pc'[p] = "done") =>
                /\ SaysSuccess(result'[p]) =>
                      /\ result'[p].data.waitTime = now - start_time[p]
                      /\ result'[p].data.finalStatus = status_response'[p].data
                /\ (~SaysSuccess(result'[p]) /\ ~HasTimeoutMarker(result'[p])) =>
                      result'[p] = status_response'[p]
                /\ HasTimeoutMarker(result'[p]) =>
                      /\ now - start_time'[p] >= TicksPerSecond * timeout'[p]
                      /\ result'[p].message = "Compilation timeout after "
                            \o ToString(timeout'[p]) \o " seconds" ]_vars

\* two waits started at different times: the earlier one has timed out
\* while the later one is still polling
C16_Witness ==
    /\ IsWait(1) /\ IsWait(2)
    /\ \E p, q \in Procs :
          /\ start_time[p] < start_time[q]
          /\ Done(p) /\ HasTimeoutMarker(result[p])
          /\ timeout[p] > 0 /\ ShowsBusy(status_response[p])
          /\ pc[q] \in {"editor_state", "console", "sleep"}
          /\ timeout[q] > 0

\* C17 as stated: a waiter is suspended only if its deadline had not passed
\* when the suspension began.
C17_NoSuspensionPastDeadline ==
    \A p \in Procs :
        (IsWait(p) /\ pc[p] = "sleep")
        => since[p] - start_time[p] < TicksPerSecond * timeout[p]

\* C17 amended: a waiter suspends exactly after a successful snapshot that
\* shows a flag set, whether or not the deadline has passed in the meantime
\* (the deadline is read only after the suspension); it never suspends after
\* a snapshot that ends the wait; a suspension lasts one polling interval
\* and is followed by the deadline check; and every snapshot but the first
\* begins right after one suspension.
C17_SuspendsAfterBusySnapshot ==
    [][ \A p \in Procs : IsWait(p) =>
          /\ (pc'[p] = "sleep" /\ pc[p] # "sleep") =>
                /\ pc[p] = "console"
                /\ ShowsBusy(status_response'[p])
                /\ since'[p] = now'
          /\ (pc[p] \in {"editor_state", "console"}
                /\ pc'[p] \notin {"editor_state", "console"}) =>
                IF ShowsBusy(status_response'[p])
                THEN pc'[p] = "sleep"
                ELSE pc'[p] = "done"
          /\ (pc[p] = "sleep" /\ pc'[p] # "sleep") =>
                /\ now - since[p] = SleepTicks
                /\ pc'[p] \in {"editor_state", "done"}
          /\ (pc'[p] = "editor_state" /\ pc[p] # "editor_state") =>
                pc[p] \in {"entry", "sleep"} ]_vars

\* a waiter suspended after a busy snapshot that was complete only at its
\* deadline
C17_Witness ==
    \E p \in Procs :
        /\ IsWait(p) /\ pc[p] = "sleep"
        /\ ShowsBusy(status_response[p])
        /\ timeout[p] > 0
        /\ since[p] - start_time[p] >= TicksPerSecond * timeout[p]

\* get_errors or get_warnings
IsListing(p) == args[p].action \in {"get_errors", "get_warnings"}
\* the result of p is a success with an empty list and count 0
EmptyListing(p) ==
    /\ SaysSuccess(result[p])
    /\ IF args[p].action = "get_errors"
       THEN result[p].data = [errorCount |-> 0, errors |-> <<>>]
       ELSE result[p].data = [warningCount |-> 0, warnings |-> <<>>]

\* C18 as stated: get_errors and get_warnings issue one read_console get
\* call, and when it does not give a success envelope they return success
\* with an empty list and count 0.
C18_ReadFailureGivesEmptyList ==
    \A p \in Procs :
        (Done(p) /\ IsListing(p)) =>
            /\ calls[p] = <<"read_console get">>
            /\ ~SaysSuccess(console_response[p]) => EmptyListing(p)

\* C18 amended: get_errors and get_warnings issue exactly one read_console
\* get call; when it returns a value that is not a success envelope they
\* return success with an empty list and count 0; when it raises they return
\* the failure "Error getting compilation errors: <cause>" (get_warnings:
\* "... warnings: <cause>").
C18_ReadFailureValueGivesEmptyList ==
    \A p \in Procs :
        IsListing(p) =>
            /\ pc[p] \in {"errors_console", "warnings_console", "done"} =>
                  calls[p] = <<"read_console get">>
            /\ pc[p] \in {"off", "entry", "raised"} => calls[p] = <<>>
            /\ (Done(p) /\ ~SaysSuccess(console_response[p])) =>
                  IF "raised" \in DOMAIN console_response[p]
                  THEN /\ result[p].success = FALSE
                       /\ result[p].message =
                             (IF args[p].action = "get_errors"
                              THEN "Error getting compilation errors: "
                              ELSE "Error getting compilation warnings: ")
                             \o console_response[p].raised
                  ELSE EmptyListing(p)

\* get_errors whose console query returned a failure envelope
C18_Witness ==
    \E p \in Procs :
        /\ Done(p) /\ args[p].action = "get_errors"
        /\ console_response[p] = FailureEnvelope
        /\ EmptyListing(p)
        /\ calls[p] = <<"read_console get">>

\* response r carries data with field key
HasField(r, key) == "data" \in DOMAIN r /\ key \in DOMAIN r.data
\* the flag a snapshot must show for editor-state response r: the field
\* when r carries it, false when it is missing
FlagOrDefault(r, key) == IF HasField(r, key) THEN r.data[key] ELSE FALSE
\* both queries of the snapshot of p returned, the first a success envelope
BothReturned(p) ==
    /\ SaysSuccess(editor_response[p])
    /\ console_response[p] # NoValue
    /\ "raised" \notin DOMAIN console_response[p]

\* C19: a success envelope that lacks expected fields is served by
\* defaults. In get_status, once both queries returned, the result is a
\* success whose flags are those of the editor-state response with false
\* for each missing one (status "idle" when both are missing), and whose
\* lists are empty when the console response has no data. A wait whose
\* snapshot was built from an editor-state response lacking both flags
\* has ended with success.
C19_MissingFieldsDefaulted ==
    \A p \in Procs :
        /\ (Done(p) /\ IsGetStatus(p) /\ BothReturned(p)) =>
              /\ SaysSuccess(result[p])
              /\ result[p].data.isCompiling = FlagOrDefault(editor_response[p], "isCompiling")
              /\ result[p].data.isUpdating = FlagOrDefault(editor_response[p], "isUpdating")
              /\ ( ~HasField(editor_response[p], "isCompiling")
                   /\ ~HasField(editor_response[p], "isUpdating") )
                    => result[p].data.status = "idle"
              /\ (SaysSuccess(console_response[p]) /\ "data" \notin DOMAIN console_response[p])
                    => ( /\ result[p].data.errors = <<>>
                         /\ result[p].data.warnings = <<>>
                         /\ result[p].data.errorCount = 0
                         /\ result[p].data.warningCount = 0 )
        /\ ( /\ IsWait(p) /\ pc[p] \in {"sleep", "done"} /\ BothReturned(p)
             /\ ~HasField(editor_response[p], "isCompiling")
             /\ ~HasField(editor_response[p], "isUpdating") )
           => ( /\ Done(p)
                /\ SaysSuccess(result[p])
                /\ result[p].data.finalStatus.status = "idle" )

\* a wait against a compiling editor ended with success on an editor-state
\* response without data
C19_Witness ==
    \E p \in Procs :
        /\ Done(p) /\ IsWait(p)
        /\ editor_response[p] = BareSuccess
        /\ editor.isCompiling
        /\ SaysSuccess(result[p])
        /\ result[p].data.finalStatus.status = "idle"

\* the commands that read the editor and change nothing
ReadCommands == {"manage_editor get_state", "read_console get"}

\* C20: get_status, wait_for_complete, get_errors and get_warnings send
\* only manage_editor get_state and read_console get; read_console clear is
\* sent only by clear_errors and execute_menu_item only by force_recompile.
\* Every poll of a wait, and get_status, sends get_state first and at most
\* one read_console get after it.
C20_ReadOnlyActionsOnlyRead ==
    \A p \in Procs :
        /\ \A i \in 1..Len(calls[p]) :
              /\ args[p].action \in {"get_status", "wait_for_complete", "get_errors",
                                     "get_warnings"}
                    => calls[p][i] \in ReadCommands
              /\ calls[p][i] = "read_console clear" => args[p].action = "clear_errors"
              /\ calls[p][i] = "execute_menu_item Assets/Refresh"
                    => args[p].action = "force_recompile"
              /\ calls[p][i] \in ReadCommands \cup {"read_console clear",
                                                    "execute_menu_item Assets/Refresh"}
        /\ (IsWait(p) \/ IsGetStatus(p)) =>
              calls[p] \in { <<>>, <<"manage_editor get_state">>,
                             <<"manage_editor get_state", "read_console get">> }
        /\ IsListing(p) => calls[p] \in { <<>>, <<"read_console get">> }

\* a wait in its second poll or later, with both read commands sent
C20_Witness ==
    \E p \in Procs :
        /\ IsWait(p) /\ pc[p] = "console"
        /\ Elapsed(p) >= SleepTicks
        /\ status_response[p] # NoValue
        /\ calls[p] = <<"manage_editor get_state", "read_console get">>
====
